---- MODULE Spec2Model ----
(***************************************************************************)
(* A model of two parts of lab:                                            *)
(*   - downward/cached_revision.py: CachedRevision.cache, the revision     *)
(*     cache (checkout, build, sentinel file, cleanup);                    *)
(*   - lab/fetcher.py: Fetcher.__call__, which collects run properties and *)
(*     merges them into an evaluation directory.                           *)
(* Spec is the revision cache used by one process; ConcSpec is the         *)
(* revision cache used by two processes; FetchSpec is the fetcher; KeySpec *)
(* computes the names derived from two cache keys.                         *)
(***************************************************************************)
EXTENDS Integers, Sequences, FiniteSets, TLC

VARIABLES
    \* ---- revision cache (cached_revision.py) ----
    key,          \* the CachedRevision object: [global_rev, build_options]
    active,       \* the processes that call cache() on this key
    disk,         \* the target directory: NoDir, or the set of files in it
    built,        \* a build has exited with 0 in the directory as it is now
    pc,           \* per process: position inside cache()
    path,         \* per process: self._path
    hg_retcode,   \* per process: retcode of 'hg archive' in the current call
    build_retcode,\* per process: retcode of './build.py' in the current call
    err,          \* per process: message of the fatal error that ended the call
    entry,        \* per process: what the call found when it started
    calls, checkouts, builds, touches, cleanups, rmtrees, deletes,
    \* ---- fetcher (fetcher.py) ----
    merge,        \* Fetcher.merge: "None", "True" or "False"
    filter,       \* the filter argument of __call__
    parsers,      \* the parsers argument of __call__
    src,          \* the source directory: name, properties file, run dirs
    dest,         \* the evaluation directory: absent, or its properties file
    f_pc,         \* position inside __call__
    answer,       \* what raw_input returned in _check_eval_dir
    src_props,    \* local src_props
    fetch_from_eval_dir,
    combined_props,
    new_props,
    run_dirs,     \* local run_dirs, the sorted glob
    index,        \* loop index over run_dirs
    unexplained_errors,
    f_err,        \* message of the error that ended the fetch
    f_entry,      \* what the fetch found when it started
    fetches, writes, parser_calls,
    \* ---- cache keys (cached_revision.py) ----
    revisions     \* two CachedRevision objects with what was computed from them

cacheVars == <<key, active, disk, built, pc, path, hg_retcode, build_retcode,
               err, entry, calls, checkouts, builds, touches, cleanups,
               rmtrees, deletes>>

fetchVars == <<merge, filter, parsers, src, dest, f_pc, answer, src_props,
               fetch_from_eval_dir, combined_props, new_props, run_dirs, index,
               unexplained_errors, f_err, f_entry, fetches, writes,
               parser_calls>>

vars == <<cacheVars, fetchVars, revisions>>

(***************************************************************************)
(* Bounds                                                                  *)
(***************************************************************************)
MaxCalls == 3
MaxDeletes == 1
MaxRuns == 2
MaxFetches == 2

(***************************************************************************)
(* Revision cache                                                          *)
(***************************************************************************)
Procs == {1, 2}

\* A directory is absent, or it holds a set of files.
NoDir == [exists |-> FALSE, files |-> {}]
Dir(fs) == [exists |-> TRUE, files |-> fs]
None == "None"
\* A return code not yet known, and a return code.
NoRet == << >>
Ret(rc) == <<rc>>

SENTINEL == "build_successful"
BUILD_PY == "build.py"
SRC == "src"
BIN == "builds/bin"
OBJ == "builds/obj"
SRC_TAR == "src.tar"
SRC_TAR_XZ == "src.tar.xz"

CheckoutFiles == {BUILD_PY, SRC}
BuildFiles == {BIN, OBJ}
Files == CheckoutFiles \cup BuildFiles \cup {SENTINEL, SRC_TAR, SRC_TAR_XZ}

REVISION_CACHE == "revision-cache"

Keys ==
    { [global_rev |-> "a1f3", build_options |-> << >>],
      [global_rev |-> "a1f3", build_options |-> <<"release32">>],
      [global_rev |-> "b2e4", build_options |-> <<"release32", "-j4">>] }

RetCodes == {0, 1}

RECURSIVE join(_, _)
join(sep, parts) ==
    IF Len(parts) = 0 THEN ""
    ELSE IF Len(parts) = 1 THEN parts[1]
    ELSE parts[1] \o sep \o join(sep, Tail(parts))

_get_cached_revision_name(k) ==
    join("-", <<k.global_rev>> \o k.build_options)

os_path_join(dir, name) == dir \o "/" \o name

\* lines 80-81: os.path.join('code-' + self.global_rev, *rel_path)
get_exp_path(k, rel_path) == join("/", <<"code-" \o k.global_rev>> \o rel_path)

\* The CachedRevision objects of KeySpec: the global revision, the summary
\* of the revision (get_rev_id) and the build options.
GlobalRevs == {"a1f3", "b2e4"}
Summaries == {"default tip", "issue123 a1f3"}
BuildOptions ==
    { << >>, <<"release32">>, <<"release32", "debug">>, <<"debug", "release32">>,
      <<"release32-debug">>, <<"release32", "-j4">> }

Revisions ==
    [global_rev : GlobalRevs, summary : Summaries, build_options : BuildOptions]

RelPaths == { << >>, <<"fast-downward.py">>, <<"builds", "release32", "bin">> }

\* Nothing computed yet from revision k.
Computed(k) ==
    [rev |-> k, cache_dir |-> None, rel_path |-> << >>, exp_path |-> None]

\* lines 56-57 of cache(): the directory of revision i under the cache root.
cached_revision_path(i) ==
    /\ revisions[i].cache_dir = None
    /\ revisions' = [revisions EXCEPT ![i].cache_dir =
          os_path_join(REVISION_CACHE, _get_cached_revision_name(revisions[i].rev))]
    /\ UNCHANGED <<cacheVars, fetchVars>>

\* get_exp_path of revision i for some rel_path.
exp_path(i) ==
    /\ revisions[i].exp_path = None
    /\ \E rel_path \in RelPaths :
          revisions' = [revisions EXCEPT
                          ![i].rel_path = rel_path,
                          ![i].exp_path = get_exp_path(revisions[i].rev, rel_path)]
    /\ UNCHANGED <<cacheVars, fetchVars>>

\* KeySpec starts with any two revisions; the other specifications do not
\* use the variable.
KeysInit == revisions \in [1..2 -> { Computed(k) : k \in Revisions }]

KeysUnused == revisions = << >>

Exists(d) == d.exists

\* A mutant of os_path_exists: the test of line 58 never sees the directory.
os_path_exists_never(d) == FALSE

\* line 58: os.path.exists(self.path)
os_path_exists(d) == Exists(d)

\* A mutant of _get_sentinel_file: the build outputs stand for the sentinel.
_get_sentinel_file_by_contents(d) == Exists(d) /\ "builds/bin" \in d.files

\* A mutant of _get_sentinel_file: any existing directory counts as complete.
_get_sentinel_file_any_dir(d) == Exists(d)

_get_sentinel_file(d) == Exists(d) /\ SENTINEL \in d.files

Terminal == {"idle", "returned", "fatal", "killed", "exception"}

Counters ==
    [checkouts |-> checkouts, builds |-> builds, touches |-> touches,
     cleanups |-> cleanups, rmtrees |-> rmtrees]

\* logging.critical: lab installs a handler that ends the process.
logging_critical(p, msg) ==
    /\ pc' = [pc EXCEPT ![p] = "fatal"]
    /\ err' = [err EXCEPT ![p] = msg]

Goto(p, label) ==
    /\ pc' = [pc EXCEPT ![p] = label]
    /\ err' = err

\* cache(), line 56-57: a new call computes self._path.
cache_begin(p) ==
    /\ p \in active
    /\ pc[p] \in Terminal
    /\ calls < MaxCalls
    /\ calls' = calls + 1
    /\ path' = [path EXCEPT
                  ![p] = os_path_join(REVISION_CACHE, _get_cached_revision_name(key))]
    /\ hg_retcode' = [hg_retcode EXCEPT ![p] = NoRet]
    /\ build_retcode' = [build_retcode EXCEPT ![p] = NoRet]
    /\ entry' = [entry EXCEPT ![p] = [disk |-> disk, counters |-> Counters,
                                    prev_path |-> path[p]]]
    /\ pc' = [pc EXCEPT ![p] = "exists"]
    /\ err' = [err EXCEPT ![p] = None]
    /\ UNCHANGED <<fetchVars, revisions, key, active, disk, built, checkouts, builds, touches,
                   cleanups, rmtrees, deletes>>

\* line 58: if os.path.exists(self.path)
cache_exists(p) ==
    /\ pc[p] = "exists"
    /\ Goto(p, IF os_path_exists(disk) THEN "sentinel" ELSE "makedirs")
    /\ UNCHANGED <<fetchVars, revisions, key, active, disk, built, path, hg_retcode, build_retcode,
                   entry, calls, checkouts, builds, touches, cleanups,
                   rmtrees, deletes>>

\* A mutant of cache_check_sentinel: an entry without sentinel is rebuilt.
cache_check_sentinel_retry(p) ==
    /\ pc[p] = "sentinel"
    /\ Goto(p, IF _get_sentinel_file(disk) THEN "returned" ELSE "archive")
    /\ UNCHANGED <<fetchVars, revisions, key, active, disk, built, path, hg_retcode, build_retcode,
                   entry, calls, checkouts, builds, touches, cleanups,
                   rmtrees, deletes>>

\* lines 59-64: the entry is a hit, or it is corrupted.
cache_check_sentinel(p) ==
    /\ pc[p] = "sentinel"
    /\ IF _get_sentinel_file(disk)
         THEN Goto(p, "returned")
         ELSE logging_critical(p, "corrupted")
    /\ UNCHANGED <<fetchVars, revisions, key, active, disk, built, path, hg_retcode, build_retcode,
                   entry, calls, checkouts, builds, touches, cleanups,
                   rmtrees, deletes>>

\* A mutant of cache_makedirs: creating the directory works as a lock, a
\* process that finds it taken gives up.
cache_makedirs_exclusive(p) ==
    /\ pc[p] = "makedirs"
    /\ IF Exists(disk)
         THEN /\ logging_critical(p, "corrupted")
              /\ UNCHANGED <<disk, built>>
         ELSE /\ disk' = Dir({})
              /\ built' = FALSE
              /\ Goto(p, "archive")
    /\ UNCHANGED <<fetchVars, revisions, key, active, path, hg_retcode, build_retcode, entry, calls,
                   checkouts, builds, touches, cleanups, rmtrees, deletes>>

\* line 66: tools.makedirs(self.path)
cache_makedirs(p) ==
    /\ pc[p] = "makedirs"
    /\ disk' = IF Exists(disk) THEN disk ELSE Dir({})
    /\ built' = (Exists(disk) /\ built)
    /\ Goto(p, "archive")
    /\ UNCHANGED <<fetchVars, revisions, key, active, path, hg_retcode, build_retcode, entry, calls,
                   checkouts, builds, touches, cleanups, rmtrees, deletes>>

\* lines 67-70: retcode = tools.run_command(['hg', 'archive', ...]).
\* A successful archive writes the whole tree (build.py may be missing from
\* an old revision); a failing one may leave any part of it.
cache_archive(p) ==
    /\ pc[p] = "archive"
    /\ \E rc \in RetCodes, out \in SUBSET CheckoutFiles :
         /\ rc = 0 => SRC \in out
         /\ hg_retcode' = [hg_retcode EXCEPT ![p] = Ret(rc)]
         /\ disk' = Dir(disk.files \cup out)
    /\ checkouts' = checkouts + 1
    /\ Goto(p, "archive_done")
    /\ UNCHANGED <<fetchVars, revisions, key, active, built, path, build_retcode, entry, calls,
                   builds, touches, cleanups, rmtrees, deletes>>

\* A mutant of rmtree: the failed checkout is left on disk.
rmtree_keeps(d) == d

\* line 72: shutil.rmtree(self.path)
rmtree(d) == NoDir

\* lines 71-73: a failed checkout removes the directory and is fatal.
cache_archive_check(p) ==
    /\ pc[p] = "archive_done"
    /\ IF hg_retcode[p] # Ret(0)
         THEN IF Exists(disk)
                THEN /\ disk' = rmtree(disk)
                     /\ built' = FALSE
                     /\ rmtrees' = rmtrees + 1
                     /\ logging_critical(p, "Failed to make checkout.")
                ELSE \* shutil.rmtree raises on a missing directory
                     /\ Goto(p, "exception")
                     /\ UNCHANGED <<disk, built, rmtrees>>
         ELSE /\ Goto(p, "compile")
              /\ UNCHANGED <<disk, built, rmtrees>>
    /\ UNCHANGED <<fetchVars, revisions, key, active, path, hg_retcode, build_retcode, entry, calls,
                   checkouts, builds, touches, cleanups, deletes>>

\* _compile, lines 87-88: build.py must exist.
_compile_check(p) ==
    /\ pc[p] = "compile"
    /\ IF Exists(disk) /\ BUILD_PY \in disk.files
         THEN Goto(p, "build")
         ELSE logging_critical(p, "build.py not found. Please merge with master.")
    /\ UNCHANGED <<fetchVars, revisions, key, active, disk, built, path, hg_retcode, build_retcode,
                   entry, calls, checkouts, builds, touches, cleanups,
                   rmtrees, deletes>>

\* _compile, lines 89-90: retcode = tools.run_command(['./build.py'] + options).
\* A successful build leaves all its outputs, a failing one any part of them.
_compile_run(p) ==
    /\ pc[p] = "build"
    /\ IF Exists(disk)
         THEN /\ \E rc \in RetCodes, out \in SUBSET BuildFiles :
                   /\ rc = 0 => out = BuildFiles
                   /\ build_retcode' = [build_retcode EXCEPT ![p] = Ret(rc)]
                   /\ disk' = Dir(disk.files \cup out)
                   /\ built' = (rc = 0)
              /\ builds' = builds + 1
              /\ Goto(p, "build_done")
         ELSE \* no working directory to run the command in
              /\ Goto(p, "exception")
              /\ UNCHANGED <<disk, built, builds, build_retcode>>
    /\ UNCHANGED <<fetchVars, revisions, key, active, path, hg_retcode, entry, calls, checkouts,
                   touches, cleanups, rmtrees, deletes>>

\* A mutant of SentinelWritten: the sentinel is touched whatever the retcode.
SentinelWritten_always(p) == TRUE

\* line 91: if retcode == 0
SentinelWritten(p) == build_retcode[p] = Ret(0)

\* A mutant of _compile_finish: a failed build is logged and not fatal.
_compile_finish_nonfatal(p) ==
    /\ pc[p] = "build_done"
    /\ Goto(p, "cleanup_builds")
    /\ IF SentinelWritten(p) /\ Exists(disk)
         THEN /\ disk' = Dir(disk.files \cup {SENTINEL})
              /\ touches' = touches + 1
         ELSE UNCHANGED <<disk, touches>>
    /\ UNCHANGED <<fetchVars, revisions, key, active, built, path, hg_retcode, build_retcode, entry,
                   calls, checkouts, builds, cleanups, rmtrees, deletes>>

\* _compile, lines 91-94: touch the sentinel after a successful build only.
_compile_finish(p) ==
    /\ pc[p] = "build_done"
    /\ IF SentinelWritten(p)
         THEN IF Exists(disk)
                THEN /\ disk' = Dir(disk.files \cup {SENTINEL})
                     /\ touches' = touches + 1
                     /\ Goto(p, "cleanup_builds")
                ELSE /\ Goto(p, "exception")
                     /\ UNCHANGED <<disk, touches>>
         ELSE /\ logging_critical(p, "Build failed")
              /\ UNCHANGED <<disk, touches>>
    /\ UNCHANGED <<fetchVars, revisions, key, active, built, path, hg_retcode, build_retcode, entry,
                   calls, checkouts, builds, cleanups, rmtrees, deletes>>

CleanupFrame ==
    UNCHANGED <<fetchVars, revisions, key, active, built, path, hg_retcode, build_retcode, entry,
                calls, checkouts, builds, touches, rmtrees, deletes>>

Remove(d, fs) == IF Exists(d) THEN Dir(d.files \ fs) ELSE d

\* _cleanup, lines 98-100: keep only the bin directories in builds/.
_cleanup_builds(p) ==
    /\ pc[p] = "cleanup_builds"
    /\ \E ok \in BOOLEAN : disk' = IF ok THEN Remove(disk, {OBJ}) ELSE disk
    /\ cleanups' = cleanups + 1
    /\ Goto(p, "cleanup_build_py")
    /\ CleanupFrame

\* _cleanup, line 103: remove build.py.
_cleanup_build_py(p) ==
    /\ pc[p] = "cleanup_build_py"
    /\ \E ok \in BOOLEAN : disk' = IF ok THEN Remove(disk, {BUILD_PY}) ELSE disk
    /\ Goto(p, "cleanup_strip")
    /\ UNCHANGED cleanups
    /\ CleanupFrame

\* subprocess.call(args): the command runs and its return code is dropped
\* ("ok", "failed"), or the program cannot be started and call raises OSError.
CallOutcomes == {"ok", "failed", "OSError"}

\* _cleanup, lines 106-110: strip the binaries (their names stay).
_cleanup_strip(p) ==
    /\ pc[p] = "cleanup_strip"
    /\ \E out \in CallOutcomes :
         Goto(p, IF out = "OSError" THEN "exception" ELSE "cleanup_tar")
    /\ UNCHANGED <<disk, cleanups>>
    /\ CleanupFrame

\* _cleanup, lines 113-115: tar -cf src.tar --remove-files src
_cleanup_tar(p) ==
    /\ pc[p] = "cleanup_tar"
    /\ \E out \in CallOutcomes :
         /\ disk' = IF out = "ok" /\ Exists(disk) /\ SRC \in disk.files
                      THEN Dir((disk.files \ {SRC}) \cup {SRC_TAR})
                      ELSE disk
         /\ Goto(p, IF out = "OSError" THEN "exception" ELSE "cleanup_xz")
    /\ UNCHANGED cleanups
    /\ CleanupFrame

\* _cleanup, line 116: xz src.tar; then cache() returns.
_cleanup_xz(p) ==
    /\ pc[p] = "cleanup_xz"
    /\ \E out \in CallOutcomes :
         /\ disk' = IF out = "ok" /\ Exists(disk) /\ SRC_TAR \in disk.files
                      THEN Dir((disk.files \ {SRC_TAR}) \cup {SRC_TAR_XZ})
                      ELSE disk
         /\ Goto(p, IF out = "OSError" THEN "exception" ELSE "returned")
    /\ UNCHANGED cleanups
    /\ CleanupFrame

\* The process is interrupted (killed) at any point inside cache(). Killed
\* while 'hg archive' or './build.py' runs, the command has been started and
\* leaves any part of its output behind.
Interrupt(p) ==
    /\ pc[p] \notin Terminal
    /\ Goto(p, "killed")
    /\ \/ UNCHANGED <<disk, checkouts, builds>>
       \/ /\ pc[p] = "archive"
          /\ checkouts' = checkouts + 1
          /\ \E out \in SUBSET CheckoutFiles : disk' = Dir(disk.files \cup out)
          /\ UNCHANGED builds
       \/ /\ pc[p] = "build"
          /\ Exists(disk)
          /\ builds' = builds + 1
          /\ \E out \in SUBSET BuildFiles : disk' = Dir(disk.files \cup out)
          /\ UNCHANGED checkouts
    /\ UNCHANGED <<fetchVars, revisions, key, active, built, path, hg_retcode, build_retcode,
                   entry, calls, touches, cleanups, rmtrees, deletes>>

\* The user deletes the cache entry by hand between runs ("Please delete it
\* and try again").
ManualDelete ==
    /\ \A p \in Procs : pc[p] \in Terminal
    /\ Exists(disk)
    /\ deletes < MaxDeletes
    /\ deletes' = deletes + 1
    /\ disk' = NoDir
    /\ built' = FALSE
    /\ pc' = [p \in Procs |-> "idle"]
    /\ err' = [p \in Procs |-> None]
    /\ UNCHANGED <<fetchVars, revisions, key, active, path, hg_retcode, build_retcode, entry, calls,
                   checkouts, builds, touches, cleanups, rmtrees>>

\* An entry left by an older lab version has no sentinel file.
OldLabEntries == { Dir(fs) : fs \in SUBSET (Files \ {SENTINEL}) }

CacheInit(procs) ==
    /\ key \in Keys
    /\ active = procs
    /\ disk \in {NoDir} \cup OldLabEntries
    /\ built = FALSE
    /\ pc = [p \in Procs |-> "idle"]
    /\ path = [p \in Procs |-> None]
    /\ hg_retcode = [p \in Procs |-> NoRet]
    /\ build_retcode = [p \in Procs |-> NoRet]
    /\ err = [p \in Procs |-> None]
    /\ entry = [p \in Procs |-> [disk |-> NoDir, counters |->
                 [checkouts |-> 0, builds |-> 0, touches |-> 0,
                  cleanups |-> 0, rmtrees |-> 0], prev_path |-> None]]
    /\ calls = 0
    /\ checkouts = 0
    /\ builds = 0
    /\ touches = 0
    /\ cleanups = 0
    /\ rmtrees = 0
    /\ deletes = 0

(***************************************************************************)
(* Fetcher: property values, run properties and property stores            *)
(***************************************************************************)
\* A JSON value: None, a string (as a sequence of chunks, so that a prefix
\* test is computed) or a list of strings.
PyNone == [t |-> "none", v |-> << >>]
Str(chunks) == [t |-> "str", v |-> chunks]
List(items) == [t |-> "list", v |-> items]

\* bool(value)
Truthy(val) == val.t # "none" /\ Len(val.v) > 0

\* str.startswith(prefix), the prefix being one chunk
startswith(val, prefix) == Len(val.v) >= 1 /\ val.v[1] = prefix

\* str.endswith(suffix) on a path given as chunks
endswith(chunks, suffix) == Len(chunks) >= 1 /\ chunks[Len(chunks)] = suffix

EmptyProps == [k \in {} |-> PyNone]
EmptyStore == [i \in {} |-> EmptyProps]

\* d[k] = val
Put(d, k, val) == [x \in DOMAIN d \cup {k} |-> IF x = k THEN val ELSE d[x]]

\* d.get(k, default)
Get(d, k, default) == IF k \in DOMAIN d THEN d[k] ELSE default

\* tools.Properties.update: dict.update, whole values replaced per key.
Properties_update(a, b) ==
    [i \in DOMAIN a \cup DOMAIN b |-> IF i \in DOMAIN b THEN b[i] ELSE a[i]]

ID1 == List(<<"d", "p", "c1">>)
ID2 == List(<<"d", "p", "c2">>)
ID3 == List(<<"d", "p", "c3">>)
ID9 == List(<<"d", "p", "c9">>)

SOME_ERROR == Str(<<"some-error">>)
UNEXPLAINED_STDERR == Str(<<"unexplained", "-error:output-to-run-err">>)
ATTRIBUTE_ERROR_MISSING == Str(<<"unexplained", ":attribute-error-missing">>)

Mk(id, run_dir, v) ==
    [k \in {"id", "run_dir", "v"} |->
        IF k = "id" THEN id ELSE IF k = "run_dir" THEN Str(<<run_dir>>)
        ELSE Str(<<v>>)]

\* Properties of runs in the source.
RunB1 == Mk(ID1, "runs-00001-00100/00001", "B")
RunB2 == Put(Mk(ID2, "runs-00001-00100/00002", "B"), "error", SOME_ERROR)
RunB3 == Put(Mk(ID1, "runs-00001-00100/00003", "B3"), "error", PyNone)
RunNoId == [k \in {"v"} |-> Str(<<"B">>)]
RunNoRunDir == [k \in {"id"} |-> ID3]

\* Properties of runs already in the evaluation directory.
RunA1 == Put(Put(Mk(ID1, "runs-00001-00100/00001", "A"), "old", Str(<<"x">>)),
             "error", SOME_ERROR)
RunA9 == Mk(ID9, "runs-00001-00100/00009", "A")
RunA2 == Put(Mk(ID2, "runs-00001-00100/00002", "A"), "error", SOME_ERROR)
RunA3 == Put(Mk(ID3, "runs-00001-00100/00003", "A"), "error", Str(<< >>))

\* The runs of the three-run example: only an id, the third with an error.
RunC1 == [k \in {"id"} |-> ID1]
RunC2 == [k \in {"id"} |-> ID2]
RunC3 == Put([k \in {"id"} |-> ID3], "error", SOME_ERROR)

\* Two runs with different id lists.
RunX1 == Put(Mk(ID1, "runs-00001-00100/00001", "B"), "error", SOME_ERROR)
RunX2 == Put(Mk(List(<<"d-p", "c1">>), "runs-00001-00100/00002", "B"),
             "error", SOME_ERROR)

\* A run directory: its properties file and whether run.err has content.
RunDir(props, stderr) == [props |-> props, stderr |-> stderr, file |-> "ok"]

\* A run directory whose properties file is "missing" or "malformed".
FaultyRunDir(kind) == [props |-> EmptyProps, stderr |-> FALSE, file |-> kind]

\* tools.Properties(filename=prop_file) on a run directory: a missing or
\* malformed file gives a mapping with only an error property.
PROPERTIES_FILE_ERROR == Str(<<"unexplained", "-error:properties-file">>)

Properties_load_run(rd) ==
    IF rd.file = "ok" THEN rd.props
    ELSE [k \in {"error"} |-> PROPERTIES_FILE_ERROR]

RunDirChoices ==
    { RunDir(RunB1, FALSE), RunDir(RunB2, FALSE), RunDir(RunB2, TRUE),
      RunDir(RunB3, FALSE), RunDir(RunNoId, FALSE), RunDir(RunNoRunDir, FALSE) }

\* '-'.join(props['id']) as the key of the store
join_id(items) == join("-", items)

StoreOf(runs) == [i \in { join_id(r["id"].v) : r \in runs } |->
                    CHOOSE r \in runs : join_id(r["id"].v) = i]

NoDest == [exists |-> FALSE, props |-> EmptyStore]
EvalDir(store) == [exists |-> TRUE, props |-> store]

Dests == { NoDest, EvalDir(StoreOf({RunA1})), EvalDir(StoreOf({RunA1, RunA9})),
           EvalDir(StoreOf({RunA2})), EvalDir(StoreOf({RunA9, RunA3})) }

\* The properties file of an experiment directory has a 'runs' key.
ExpProps == [i \in {"runs"} |-> EmptyProps]

Source(dir, props, runs) == [dir |-> dir, props |-> props, runs |-> runs]

RawSources ==
    { Source(<<"exp">>, ExpProps, runs) :
        runs \in UNION { [1..n -> RunDirChoices] : n \in 0..MaxRuns } }

EvalSources ==
    { Source(<<"exp", "-eval">>, StoreOf({RunB1, RunB2}), << >>),
      Source(<<"other">>, StoreOf({RunB3}), << >>),
      Source(<<"exp", "-eval">>, Properties_update(ExpProps, StoreOf({RunB2})),
             <<RunDir(RunB1, FALSE)>>) }

\* Experiment directories with particular run directories.
ExampleSources ==
    { Source(<<"exp">>, ExpProps,
             <<RunDir(RunC1, FALSE), RunDir(RunC2, FALSE), RunDir(RunC3, FALSE)>>),
      Source(<<"exp">>, ExpProps, <<RunDir(RunX1, FALSE), RunDir(RunX2, FALSE)>>),
      Source(<<"exp">>, ExpProps, <<FaultyRunDir("missing"), RunDir(RunB2, FALSE)>>),
      Source(<<"exp">>, ExpProps, <<RunDir(RunB2, FALSE), FaultyRunDir("malformed")>>) }

Sources == RawSources \cup EvalSources \cup ExampleSources

Filters == {"none", "drop_c2", "rewrite"}

\* tools.RunFilter.apply: a filter drops a run (falsy verdict) or replaces it
\* by the mapping it returns.
RunFilter_apply(f, store) ==
    IF f = "none" THEN store
    ELSE IF f = "drop_c2"
      THEN [i \in { j \in DOMAIN store : Get(store[j], "id", PyNone) # ID2 } |->
              store[i]]
      ELSE [i \in DOMAIN store |-> Put(store[i], "v", Str(<<"F">>))]

\* A mutant of check_stderr_output: the error is prepended to the old one.
check_stderr_output_appending(content, props) ==
    IF content
      THEN Put(props, "error",
               Str(UNEXPLAINED_STDERR.v \o Get(props, "error", PyNone).v))
      ELSE props

\* default-parser.py, lines 19-21
check_stderr_output(content, props) ==
    IF content THEN Put(props, "error", UNEXPLAINED_STDERR) ELSE props

ParserLists == { << >>, <<"default-parser">> }

\* fetch_dir, lines 65-67: every parser runs in the run directory and
\* rewrites its properties file.
RECURSIVE run_parsers(_, _)
run_parsers(ps, rd) ==
    IF Len(ps) = 0 THEN rd
    ELSE run_parsers(Tail(ps),
                     [rd EXCEPT !.props = check_stderr_output(rd.stderr, rd.props)])

\* sorted(glob(...)): the run directories in ascending order of their paths
RECURSIVE sorted(_)
sorted(paths) ==
    IF paths = {} THEN << >>
    ELSE LET least == CHOOSE x \in paths : \A y \in paths : x <= y
         IN <<least>> \o sorted(paths \ {least})

glob(source) == DOMAIN source.runs

\* What raw_input may return, as sequences of characters.
RawAnswers ==
    { <<"o">>, <<" ", "O", " ">>, <<"m">>, <<"M">>, <<"c">>, <<"C", " ">>,
      <<"x">>, << >>, <<"o", "k">>, <<" ">> }

Whitespace == {" ", "\t", "\n"}

\* str.strip()
RECURSIVE strip(_)
strip(a) ==
    IF Len(a) = 0 THEN a
    ELSE IF a[1] \in Whitespace THEN strip(Tail(a))
    ELSE IF a[Len(a)] \in Whitespace THEN strip(SubSeq(a, 1, Len(a) - 1))
    ELSE a

\* str.lower()
lower(a) ==
    [i \in 1..Len(a) |->
        CASE a[i] = "O" -> "o"
          [] a[i] = "M" -> "m"
          [] a[i] = "C" -> "c"
          [] a[i] = "X" -> "x"
          [] a[i] = "K" -> "k"
          [] OTHER -> a[i]]

\* raw_input(...).strip().lower(), line 29-31
strip_lower(a) == lower(strip(a))

\* tools.Properties(filename): the stored mapping, empty if there is no file
Properties_load(d) == IF d.exists THEN d.props ELSE EmptyStore

\* tools.remove_path(eval_dir)
remove_path(d) == NoDest

\* tools.Properties.write after tools.makedirs(eval_dir): the file holds the
\* mapping (JSON values are stored as they are)
Properties_write(store) == EvalDir(store)

\* lines 123-124: the run counts as an unexplained error
Unexplained(props) ==
    LET error == Get(props, "error", ATTRIBUTE_ERROR_MISSING)
    IN Truthy(error) /\ startswith(error, "unexplained")

FTerminal == {"idle", "done", "fatal", "exited", "exception"}

FetchCounters == [writes |-> writes, parser_calls |-> parser_calls]

(***************************************************************************)
(* Fetcher.__call__                                                        *)
(***************************************************************************)
F_fatal(msg) ==
    /\ f_pc' = "fatal"
    /\ f_err' = msg

F_raise(msg) ==
    /\ f_pc' = "exception"
    /\ f_err' = msg

F_goto(label) ==
    /\ f_pc' = label
    /\ f_err' = f_err

\* lines 84-93: load the source's properties file and classify the source.
\* The source is an existing directory and eval_dir is given by the caller,
\* a directory other than the source.
fetch_begin ==
    /\ f_pc \in FTerminal
    /\ fetches < MaxFetches
    /\ fetches' = fetches + 1
    /\ src_props' = src.props
    /\ fetch_from_eval_dir' =
          (("runs" \notin DOMAIN src.props) \/ endswith(src.dir, "-eval"))
    /\ f_entry' = [dest |-> dest, src |-> src, counters |-> FetchCounters]
    /\ combined_props' = EmptyStore
    /\ new_props' = EmptyStore
    /\ run_dirs' = << >>
    /\ index' = 0
    /\ unexplained_errors' = 0
    /\ answer' = << >>
    /\ f_pc' = "policy"
    /\ f_err' = None
    /\ UNCHANGED <<cacheVars, revisions, merge, filter, parsers, src, dest, writes,
                   parser_calls>>

\* A mutant of PolicyRemoves: merge=False no longer removes the directory.
PolicyRemoves_prompt_only(m, exists, ans) ==
    m = "None" /\ exists /\ ans = <<"o">>

\* lines 32-33 and 97-98: the old evaluation directory is removed.
PolicyRemoves(m, exists, ans) ==
    \/ m = "False"
    \/ m = "None" /\ exists /\ ans = <<"o">>

\* A mutant of AfterAnswer: after 'c' the fetch goes on and merges.
AfterAnswer_cancel_merges(ans) ==
    IF ans \in {<<"o">>, <<"m">>, <<"c">>} THEN "load" ELSE "fatal"

\* A mutant of AfterAnswer: an invalid answer is taken as cancel.
AfterAnswer_invalid_cancels(ans) ==
    IF ans \in {<<"o">>, <<"m">>} THEN "load" ELSE "exited"

\* _check_eval_dir, lines 32-40: where the answer leads.
AfterAnswer(ans) ==
    IF ans = <<"o">> THEN "load"
    ELSE IF ans = <<"m">> THEN "load"
    ELSE IF ans = <<"c">> THEN "exited"
    ELSE "fatal"

\* lines 95-99 and _check_eval_dir, lines 27-40: the conflict policy.
fetch_policy ==
    /\ f_pc = "policy"
    /\ \E a \in (IF merge = "None" /\ dest.exists THEN RawAnswers ELSE {<< >>}) :
         LET ans == strip_lower(a) IN
         /\ answer' = a
         /\ dest' = IF PolicyRemoves(merge, dest.exists, ans)
                      THEN remove_path(dest) ELSE dest
         /\ IF merge = "None" /\ dest.exists
              THEN IF AfterAnswer(ans) = "fatal"
                     THEN F_fatal("Invalid answer")
                     ELSE F_goto(AfterAnswer(ans))
              ELSE F_goto("load")
    /\ UNCHANGED <<cacheVars, revisions, merge, filter, parsers, src, src_props,
                   fetch_from_eval_dir, combined_props, new_props, run_dirs,
                   index, unexplained_errors, f_entry, fetches, writes,
                   parser_calls>>

\* lines 101-102 and 107-111: load the destination's properties; for an
\* experiment directory, list the run directories in sorted order.
fetch_load ==
    /\ f_pc = "load"
    /\ combined_props' = Properties_load(dest)
    /\ IF fetch_from_eval_dir
         THEN /\ F_goto("merge")
              /\ UNCHANGED <<new_props, run_dirs, index>>
         ELSE /\ new_props' = EmptyStore
              /\ run_dirs' = sorted(glob(src))
              /\ index' = 1
              /\ F_goto("loop")
    /\ UNCHANGED <<cacheVars, revisions, merge, filter, parsers, src, dest, answer,
                   src_props, fetch_from_eval_dir, unexplained_errors,
                   f_entry, fetches, writes, parser_calls>>

\* A mutant of fetch_run_dir: an identifier that is already collected keeps
\* its first entry.
fetch_run_dir_keeps_first ==
    /\ f_pc = "loop"
    /\ index <= Len(run_dirs)
    /\ LET run_dir == run_dirs[index]
           parsed == run_parsers(parsers, src.runs[run_dir])
           props == Properties_load_run(parsed)
       IN /\ src' = [src EXCEPT !.runs[run_dir] = parsed]
          /\ parser_calls' = parser_calls + Len(parsers)
          /\ IF "id" \in DOMAIN props
               THEN /\ new_props' =
                          IF join_id(props["id"].v) \in DOMAIN new_props
                            THEN new_props
                            ELSE Put(new_props, join_id(props["id"].v), props)
                    /\ index' = index + 1
                    /\ F_goto("loop")
               ELSE /\ F_raise("KeyError: 'id'")
                    /\ UNCHANGED <<new_props, index>>
    /\ UNCHANGED <<cacheVars, revisions, merge, filter, parsers, dest, answer, src_props,
                   fetch_from_eval_dir, combined_props, run_dirs,
                   unexplained_errors, f_entry, fetches, writes>>

\* lines 112-117 and fetch_dir, lines 60-69: one run directory.
fetch_run_dir ==
    /\ f_pc = "loop"
    /\ index <= Len(run_dirs)
    /\ LET run_dir == run_dirs[index]
           parsed == run_parsers(parsers, src.runs[run_dir])
           props == Properties_load_run(parsed)
       IN /\ src' = [src EXCEPT !.runs[run_dir] = parsed]
          /\ parser_calls' = parser_calls + Len(parsers)
          /\ IF "id" \in DOMAIN props
               THEN /\ new_props' = Put(new_props, join_id(props["id"].v), props)
                    /\ index' = index + 1
                    /\ F_goto("loop")
               ELSE /\ F_raise("KeyError: 'id'")
                    /\ UNCHANGED <<new_props, index>>
    /\ UNCHANGED <<cacheVars, revisions, merge, filter, parsers, dest, answer, src_props,
                   fetch_from_eval_dir, combined_props, run_dirs,
                   unexplained_errors, f_entry, fetches, writes>>

\* A mutant of Merged: the stored runs win over the fetched ones.
Merged_reversed(combined, source) == Properties_update(source, combined)

\* lines 105 and 119: combined_props.update(...)
Merged(combined, source) == Properties_update(combined, source)

\* A mutant of fetch_merge: the filter is applied to the merged store.
fetch_merge_filters_merged ==
    /\ \/ f_pc = "merge"
       \/ f_pc = "loop" /\ index > Len(run_dirs)
    /\ combined_props' =
          RunFilter_apply(filter,
              Merged(combined_props,
                     IF fetch_from_eval_dir THEN src_props ELSE new_props))
    /\ F_goto("scan")
    /\ UNCHANGED <<cacheVars, revisions, merge, filter, parsers, src, dest, answer,
                   src_props, new_props,
                   fetch_from_eval_dir, run_dirs, index, unexplained_errors,
                   f_entry, fetches, writes, parser_calls>>

\* lines 104-105 and 118-119: filter the source properties, then merge them
\* into the destination's.
fetch_merge ==
    /\ \/ f_pc = "merge"
       \/ f_pc = "loop" /\ index > Len(run_dirs)
    /\ LET filtered ==
             RunFilter_apply(filter,
                 IF fetch_from_eval_dir THEN src_props ELSE new_props)
       IN /\ src_props' = IF fetch_from_eval_dir THEN filtered ELSE src_props
          /\ new_props' = IF fetch_from_eval_dir THEN new_props ELSE filtered
          /\ combined_props' = Merged(combined_props, filtered)
    /\ F_goto("scan")
    /\ UNCHANGED <<cacheVars, revisions, merge, filter, parsers, src, dest, answer,
                   fetch_from_eval_dir, run_dirs, index, unexplained_errors,
                   f_entry, fetches, writes, parser_calls>>

\* A mutant of fetch_scan: the merged store is written before the scan.
fetch_scan_after_write ==
    /\ f_pc = "scan"
    /\ dest' = Properties_write(combined_props)
    /\ LET bad == { i \in DOMAIN combined_props : Unexplained(combined_props[i]) }
       IN IF \A i \in bad : "run_dir" \in DOMAIN combined_props[i]
            THEN /\ unexplained_errors' = Cardinality(bad)
                 /\ F_goto("write")
            ELSE /\ F_raise("KeyError: 'run_dir'")
                 /\ UNCHANGED unexplained_errors
    /\ UNCHANGED <<cacheVars, revisions, merge, filter, parsers, src, answer,
                   src_props, fetch_from_eval_dir, combined_props, new_props,
                   run_dirs, index, f_entry, fetches, writes, parser_calls>>

\* lines 121-127: count the unexplained errors; the warning formats
\* props[run_dir] of each such run.
fetch_scan ==
    /\ f_pc = "scan"
    /\ LET bad == { i \in DOMAIN combined_props : Unexplained(combined_props[i]) }
       IN IF \A i \in bad : "run_dir" \in DOMAIN combined_props[i]
            THEN /\ unexplained_errors' = Cardinality(bad)
                 /\ F_goto("write")
            ELSE /\ F_raise("KeyError: 'run_dir'")
                 /\ UNCHANGED unexplained_errors
    /\ UNCHANGED <<cacheVars, revisions, merge, filter, parsers, src, dest, answer,
                   src_props, fetch_from_eval_dir, combined_props, new_props,
                   run_dirs, index, f_entry, fetches, writes, parser_calls>>

\* lines 129-131: tools.makedirs(eval_dir); combined_props.write()
fetch_write ==
    /\ f_pc = "write"
    /\ dest' = Properties_write(combined_props)
    /\ writes' = writes + 1
    /\ F_goto("written")
    /\ UNCHANGED <<cacheVars, revisions, merge, filter, parsers, src, answer, src_props,
                   fetch_from_eval_dir, combined_props, new_props, run_dirs,
                   index, unexplained_errors, f_entry, fetches, parser_calls>>

\* lines 133-135: the error count is reported after the write.
fetch_finish ==
    /\ f_pc = "written"
    /\ IF unexplained_errors # 0
         THEN F_fatal("There were runs with unexplained errors.")
         ELSE F_goto("done")
    /\ UNCHANGED <<cacheVars, revisions, merge, filter, parsers, src, dest, answer,
                   src_props, fetch_from_eval_dir, combined_props, new_props,
                   run_dirs, index, unexplained_errors, f_entry, fetches,
                   writes, parser_calls>>

\* The fetcher before its first call; FetchInit draws its arguments and the
\* directories it works on.
FetchIdle ==
    /\ f_pc = "idle"
    /\ answer = << >>
    /\ src_props = EmptyStore
    /\ fetch_from_eval_dir = FALSE
    /\ combined_props = EmptyStore
    /\ new_props = EmptyStore
    /\ run_dirs = << >>
    /\ index = 0
    /\ unexplained_errors = 0
    /\ f_err = None
    /\ f_entry = [dest |-> NoDest, src |-> Source(<< >>, EmptyStore, << >>),
                  counters |-> [writes |-> 0, parser_calls |-> 0]]
    /\ fetches = 0
    /\ writes = 0
    /\ parser_calls = 0

FetchInit ==
    /\ merge \in {"None", "True", "False"}
    /\ filter \in Filters
    /\ parsers \in ParserLists
    /\ src \in Sources
    /\ dest \in Dests
    /\ FetchIdle

\* The fetcher is not used in Spec.
FetchUnused ==
    /\ merge = "None"
    /\ filter = "none"
    /\ parsers = << >>
    /\ src = Source(<< >>, EmptyStore, << >>)
    /\ dest = NoDest
    /\ FetchIdle

Init == CacheInit({1}) /\ FetchUnused /\ KeysUnused

Next ==
    \/ \E p \in Procs : cache_begin(p)
    \/ \E p \in Procs : cache_exists(p)
    \/ \E p \in Procs : cache_check_sentinel(p)
    \/ \E p \in Procs : cache_makedirs(p)
    \/ \E p \in Procs : cache_archive(p)
    \/ \E p \in Procs : cache_archive_check(p)
    \/ \E p \in Procs : _compile_check(p)
    \/ \E p \in Procs : _compile_run(p)
    \/ \E p \in Procs : _compile_finish(p)
    \/ \E p \in Procs : _cleanup_builds(p)
    \/ \E p \in Procs : _cleanup_build_py(p)
    \/ \E p \in Procs : _cleanup_strip(p)
    \/ \E p \in Procs : _cleanup_tar(p)
    \/ \E p \in Procs : _cleanup_xz(p)
    \/ \E p \in Procs : Interrupt(p)
    \/ ManualDelete

Spec == Init /\ [][Next]_vars

\* Two processes call cache() for the same key and cache root; the cache
\* has no directory for the key yet.
ConcInit == CacheInit(Procs) /\ disk = NoDir /\ FetchUnused /\ KeysUnused

\* The steps of cache() by either process; no call is interrupted and
\* nobody deletes the directory.
ConcNext ==
    \/ \E p \in Procs : cache_begin(p)
    \/ \E p \in Procs : cache_exists(p)
    \/ \E p \in Procs : cache_check_sentinel(p)
    \/ \E p \in Procs : cache_makedirs(p)
    \/ \E p \in Procs : cache_archive(p)
    \/ \E p \in Procs : cache_archive_check(p)
    \/ \E p \in Procs : _compile_check(p)
    \/ \E p \in Procs : _compile_run(p)
    \/ \E p \in Procs : _compile_finish(p)
    \/ \E p \in Procs : _cleanup_builds(p)
    \/ \E p \in Procs : _cleanup_build_py(p)
    \/ \E p \in Procs : _cleanup_strip(p)
    \/ \E p \in Procs : _cleanup_tar(p)
    \/ \E p \in Procs : _cleanup_xz(p)

ConcSpec == ConcInit /\ [][ConcNext]_vars

\* The revision cache is not used in FetchSpec.
CacheUnused ==
    /\ CacheInit({})
    /\ key = [global_rev |-> "a1f3", build_options |-> << >>]
    /\ disk = NoDir

FetchSpecInit == CacheUnused /\ FetchInit /\ KeysUnused

FetchNext ==
    \/ fetch_begin
    \/ fetch_policy
    \/ fetch_load
    \/ fetch_run_dir
    \/ fetch_merge
    \/ fetch_scan
    \/ fetch_write
    \/ fetch_finish

FetchSpec == FetchSpecInit /\ [][FetchNext]_vars

\* The names derived from two cache keys.
KeySpecInit == CacheUnused /\ FetchUnused /\ KeysInit

KeyNext ==
    \/ \E i \in 1..2 : cached_revision_path(i)
    \/ \E i \in 1..2 : exp_path(i)

KeySpec == KeySpecInit /\ [][KeyNext]_vars

(***************************************************************************)
(* Properties of the revision cache                                        *)
(***************************************************************************)
InCall(p) == pc[p] # "idle"

HasSentinel(d) == d.exists /\ SENTINEL \in d.files

HitPath == {"exists", "sentinel", "returned", "killed"}
CorruptedPath == {"exists", "sentinel", "fatal", "killed"}

\* C1: in every state, interrupted calls included, the sentinel file is in
\* the target directory only if the build command has exited with return
\* code 0 in that directory.
C1_SentinelOnlyAfterSuccessfulBuild ==
    HasSentinel(disk) => (built /\ touches >= 1)

C1_Witness ==
    \E p \in Procs :
        /\ pc[p] = "killed"
        /\ HasSentinel(disk)
        /\ built

\* C2: a call that finds a completed entry returns successfully with the
\* path of the earlier call, runs no checkout, build, cleanup or deletion and
\* leaves the directory as it was; the entry stays at one build.
C2_HitIsIdempotent ==
    \A p \in Procs :
        (InCall(p) /\ HasSentinel(entry[p].disk)) =>
            /\ pc[p] \in HitPath
            /\ disk = entry[p].disk
            /\ Counters = entry[p].counters
            /\ entry[p].prev_path # None => path[p] = entry[p].prev_path
            /\ deletes = 0 => builds = 1

C2_Witness ==
    \E p \in Procs :
        /\ pc[p] = "returned"
        /\ HasSentinel(entry[p].disk)
        /\ entry[p].prev_path # None
        /\ calls >= 2
        /\ builds = 1

\* C3: a call that finds the target directory without the sentinel ends in
\* the fatal 'corrupted' error whatever the directory holds, and runs no
\* checkout, build or cleanup, writes no sentinel and leaves the directory.
C3_MissingSentinelIsCorrupted ==
    \A p \in Procs :
        (InCall(p) /\ Exists(entry[p].disk)
                   /\ ~ HasSentinel(entry[p].disk)) =>
            /\ pc[p] \in CorruptedPath
            /\ pc[p] = "fatal" => err[p] = "corrupted"
            /\ disk = entry[p].disk
            /\ Counters = entry[p].counters

C3_Witness ==
    \E p \in Procs :
        /\ pc[p] = "fatal"
        /\ err[p] = "corrupted"
        /\ {BIN, OBJ, BUILD_PY, SRC} \subseteq entry[p].disk.files
        /\ disk = entry[p].disk

\* C4: when 'hg archive' returns non-zero the call ends in a fatal error, the
\* target directory is gone, and no build, cleanup or sentinel write happens.
C4_CheckoutFailureLeavesNoTrace ==
    \A p \in Procs :
        (InCall(p) /\ hg_retcode[p] \notin {NoRet, Ret(0)}) =>
            /\ pc[p] \in {"archive_done", "fatal", "killed"}
            /\ pc[p] = "fatal" =>
                 /\ err[p] = "Failed to make checkout."
                 /\ ~ Exists(disk)
            /\ builds = entry[p].counters.builds
            /\ cleanups = entry[p].counters.cleanups
            /\ touches = entry[p].counters.touches
            /\ ~ HasSentinel(disk)

C4_Witness ==
    \E p \in Procs :
        /\ pc[p] = "fatal"
        /\ hg_retcode[p] = Ret(1)
        /\ ~ Exists(disk)
        /\ rmtrees = entry[p].counters.rmtrees + 1

\* C5: when the build command returns non-zero the call ends in the fatal
\* 'Build failed' error, the target directory stays, without sentinel, and
\* the cleanup is not run.
C5_BuildFailureLeavesUnmarkedDir ==
    \A p \in Procs :
        (InCall(p) /\ build_retcode[p] \notin {NoRet, Ret(0)}) =>
            /\ pc[p] \in {"build_done", "fatal", "killed"}
            /\ pc[p] = "fatal" => err[p] = "Build failed"
            /\ Exists(disk)
            /\ ~ HasSentinel(disk)
            /\ cleanups = entry[p].counters.cleanups
            /\ touches = entry[p].counters.touches

C5_Witness ==
    \E p \in Procs :
        /\ pc[p] = "fatal"
        /\ err[p] = "Build failed"
        /\ build_retcode[p] = Ret(1)
        /\ Exists(disk)
        /\ builds = entry[p].counters.builds + 1

\* C6: without a manual deletion the build command is invoked at most once
\* (at most once more per deletion); a call made after a build was attempted
\* is a hit or fails as corrupted and runs neither checkout nor build.
C6_AtMostOneBuild ==
    /\ builds <= 1 + deletes
    /\ \A p \in Procs :
         (InCall(p) /\ entry[p].counters.builds > deletes) =>
            /\ pc[p] \in HitPath \cup CorruptedPath
            /\ pc[p] = "fatal" => err[p] = "corrupted"
            /\ checkouts = entry[p].counters.checkouts
            /\ builds = entry[p].counters.builds

C6_Witness ==
    \E p \in Procs :
        /\ pc[p] = "fatal"
        /\ err[p] = "corrupted"
        /\ entry[p].counters.builds = 1
        /\ deletes = 0
        /\ calls >= 2

\* C7: a call that has ended leaves the target directory absent (failed
\* checkout), or checked out or found without sentinel (fatal error), or
\* with the sentinel; no call returns successfully without the sentinel.
C7_EndStates ==
    \A p \in Procs :
        /\ pc[p] = "returned" => HasSentinel(disk)
        /\ pc[p] = "fatal" =>
             \/ /\ ~ Exists(disk)
                /\ err[p] = "Failed to make checkout."
             \/ /\ Exists(disk)
                /\ ~ HasSentinel(disk)
                /\ \/ Exists(entry[p].disk) /\ disk = entry[p].disk
                   \/ hg_retcode[p] = Ret(0) /\ SRC \in disk.files

C7_Witness ==
    \E p \in Procs :
        /\ pc[p] = "returned"
        /\ ~ Exists(entry[p].disk)
        /\ HasSentinel(disk)
        /\ SRC_TAR_XZ \in disk.files

(***************************************************************************)
(* Properties of the fetcher                                               *)
(***************************************************************************)
\* The source properties that are merged: src_props or new_props after the
\* filter has been applied.
FilteredSource == IF fetch_from_eval_dir THEN src_props ELSE new_props

EndOfFetch == {"written", "done", "fatal"}

\* C8: merging the source store B into the destination store A gives B's
\* mapping for every identifier of B (nothing of A's mapping for it is
\* left), A's mapping for the identifiers only in A, and no other
\* identifier; this store is what the fetch writes.
C8_UpdateReplacesPerRun ==
    LET A == dest.props
        B == FilteredSource
    IN /\ f_pc \in {"scan", "write"} =>
            /\ DOMAIN combined_props = DOMAIN A \cup DOMAIN B
            /\ \A i \in DOMAIN B : combined_props[i] = B[i]
            /\ \A i \in DOMAIN A \ DOMAIN B : combined_props[i] = A[i]
       /\ f_pc \in {"written", "done"} => dest = EvalDir(combined_props)

C8_Witness ==
    LET A == dest.props
        B == FilteredSource
    IN /\ f_pc = "write"
       /\ \E i \in DOMAIN A \cap DOMAIN B :
             /\ "old" \in DOMAIN A[i]
             /\ "old" \notin DOMAIN combined_props[i]
       /\ DOMAIN A \ DOMAIN B # {}
       /\ DOMAIN B \ DOMAIN A # {}

\* C9: with merge=True, a second (or later) fetch of the same source with
\* the same filter and parsers leaves the evaluation directory as the fetch
\* before it left it.
C9_RefetchIsIdempotent ==
    (merge = "True" /\ fetches >= 2 /\ f_pc # "idle") => dest = f_entry.dest

C9_Witness ==
    /\ merge = "True"
    /\ fetches = 2
    /\ writes = 2
    /\ f_pc \in EndOfFetch
    /\ parsers # << >>
    /\ \E d \in DOMAIN src.runs : src.runs[d].stderr
    /\ DOMAIN dest.props \ DOMAIN FilteredSource # {}

Overwrite ==
    merge = "False" \/ (merge = "None" /\ strip_lower(answer) = <<"o">>)

\* C10: with merge=False or the answer 'o', a fetch into an existing
\* evaluation directory removes it and then writes exactly the filtered
\* source runs: nothing of the old store is left.
C10_OverwriteDiscardsOldStore ==
    (Overwrite /\ f_entry.dest.exists /\ f_pc \notin {"idle", "policy"}) =>
        /\ f_pc \notin EndOfFetch => dest = NoDest
        /\ f_pc \in EndOfFetch => dest = EvalDir(FilteredSource)

C10_Witness ==
    /\ merge = "None"
    /\ answer = <<" ", "O", " ">>
    /\ f_pc \in EndOfFetch
    /\ "d-p-c9" \in DOMAIN f_entry.dest.props
    /\ "d-p-c9" \notin DOMAIN dest.props
    /\ "d-p-c1" \in DOMAIN dest.props
    /\ "old" \notin DOMAIN dest.props["d-p-c1"]

\* The source of the current fetch is an experiment directory (not an
\* evaluation directory).
RawEntry ==
    /\ "runs" \in DOMAIN f_entry.src.props
    /\ ~endswith(f_entry.src.dir, "-eval")

\* The properties fetch_dir loads for run directory d of the source as it was
\* when the fetch began.
Loaded(d) == Properties_load_run(run_parsers(parsers, f_entry.src.runs[d]))

Ended == f_pc \in {"done", "fatal", "exited", "exception"}

\* C11: a fetch of an experiment directory with n run directories whose
\* loaded properties have pairwise distinct 'id' lists, without filter, into
\* a destination that does not exist, writes a store with exactly n
\* identifiers, the '-'-joins of the ids, and reports as the number of
\* unexplained errors the number of runs without 'error' or whose 'error'
\* starts with 'unexplained'.
C11_FreshFetchStoresEveryRun ==
    LET D == DOMAIN f_entry.src.runs
        n == Cardinality(D)
        c == Cardinality({ d \in D : Unexplained(Loaded(d)) })
    IN ( /\ Ended
         /\ RawEntry
         /\ filter = "none"
         /\ ~f_entry.dest.exists
         /\ \A d \in D : "id" \in DOMAIN Loaded(d)
         /\ \A d1, d2 \in D : d1 # d2 => Loaded(d1)["id"] # Loaded(d2)["id"] )
       => /\ dest.exists
          /\ DOMAIN dest.props = { join_id(Loaded(d)["id"].v) : d \in D }
          /\ Cardinality(DOMAIN dest.props) = n
          /\ IF c = 0 THEN f_pc = "done"
             ELSE f_pc = "fatal" /\ unexplained_errors = c

\* The fetch ended and was stopped neither at the prompt nor while it
\* collected the run directories: it has merged.
EndedAfterMerge ==
    /\ Ended
    /\ f_pc # "exited"
    /\ f_err \notin {"Invalid answer", "KeyError: 'id'"}

UNEXPLAINED_REPORT == "There were runs with unexplained errors."

\* C12: whatever the merged store holds, when at least one of its runs is
\* counted as an unexplained error the fetch writes the whole merged store
\* to the destination and only then ends with the fatal report of the count.
C12_UnexplainedErrorsReportedAfterWrite ==
    ( /\ EndedAfterMerge
      /\ \E i \in DOMAIN combined_props : Unexplained(combined_props[i]) )
    => /\ f_pc = "fatal"
       /\ f_err = UNEXPLAINED_REPORT
       /\ dest = EvalDir(combined_props)
       /\ writes = f_entry.counters.writes + 1

\* The fetch ended and was not stopped at the prompt.
EndedAfterPolicy ==
    /\ Ended
    /\ f_pc # "exited"
    /\ f_err # "Invalid answer"

\* C13: a run directory whose properties file is missing or malformed does
\* not abort the fetch of an experiment directory: every run directory is
\* collected, the store is merged and written, and the faulty run is in it
\* as an entry with only an error property.
C13_FaultyRunDoesNotAbort ==
    ( /\ EndedAfterPolicy
      /\ RawEntry
      /\ \E d \in DOMAIN f_entry.src.runs : f_entry.src.runs[d].file # "ok" )
    => /\ f_pc \in {"done", "fatal"}
       /\ index = Len(run_dirs) + 1
       /\ Len(run_dirs) = Cardinality(DOMAIN f_entry.src.runs)
       /\ dest = EvalDir(combined_props)
       /\ writes = f_entry.counters.writes + 1
       /\ \E i \in DOMAIN dest.props : DOMAIN dest.props[i] = {"error"}

\* The fetch asked for the policy: merge is unspecified and the destination
\* existed when the fetch began.
Prompted == merge = "None" /\ f_entry.dest.exists /\ f_pc \notin {"idle", "policy"}

\* Nothing has changed since the fetch began: the destination, the run
\* directories, the number of parser runs and the number of writes.
NothingChanged ==
    /\ dest = f_entry.dest
    /\ src = f_entry.src
    /\ FetchCounters = f_entry.counters

\* C14: with merge unspecified, an existing destination and the answer 'c',
\* the fetch exits without any change: the destination is as it was, no
\* parser has run on any run directory and nothing was written.
C14_CancelChangesNothing ==
    (Prompted /\ strip_lower(answer) = <<"c">>) =>
        /\ f_pc = "exited"
        /\ f_err = None
        /\ NothingChanged

C14_Witness ==
    /\ Prompted
    /\ answer = <<"C", " ">>
    /\ f_pc = "exited"
    /\ parsers # << >>
    /\ \E d \in DOMAIN src.runs : src.runs[d].stderr
    /\ RawEntry

\* C15: with merge unspecified and an existing destination, an answer that
\* after strip() and lower() is none of 'o', 'm', 'c' ends the fetch in the
\* fatal error 'Invalid answer' (not in the exit of cancel), with the
\* destination unmodified, nothing parsed and nothing written.
C15_InvalidAnswerIsFatal ==
    (Prompted /\ strip_lower(answer) \notin {<<"o">>, <<"m">>, <<"c">>}) =>
        /\ f_pc = "fatal"
        /\ f_err = "Invalid answer"
        /\ NothingChanged

C15_Witness ==
    /\ Prompted
    /\ answer = <<"o", "k">>
    /\ f_pc = "fatal"
    /\ dest.exists
    /\ parsers # << >>

\* C16: the source is treated as an evaluation directory exactly when its
\* properties file has no 'runs' key or its path ends in '-eval'.  Then its
\* properties are used directly: no parser runs and no run directory is
\* scanned.  Otherwise every run directory of the source is scanned, in
\* ascending order of the paths, and all parsers have run on a directory
\* before its properties are loaded.
C16_SourceKind ==
    LET D == DOMAIN f_entry.src.runs IN
    /\ f_pc # "idle" => (fetch_from_eval_dir <=> ~RawEntry)
    /\ (f_pc # "idle" /\ ~RawEntry) =>
          /\ run_dirs = << >>
          /\ src = f_entry.src
          /\ parser_calls = f_entry.counters.parser_calls
          /\ f_pc \in {"scan", "write"} =>
                combined_props =
                    Properties_update(dest.props,
                                      RunFilter_apply(filter, f_entry.src.props))
    /\ (f_pc \in {"loop", "merge"} /\ RawEntry) =>
          /\ Len(run_dirs) = Cardinality(D)
          /\ \A i \in 1..Len(run_dirs) : run_dirs[i] \in D
          /\ \A i, j \in 1..Len(run_dirs) : i < j => run_dirs[i] < run_dirs[j]
          /\ \A i \in 1..Len(run_dirs) :
                src.runs[run_dirs[i]] =
                    IF i < index
                      THEN run_parsers(parsers, f_entry.src.runs[run_dirs[i]])
                      ELSE f_entry.src.runs[run_dirs[i]]
          /\ index > 1 =>
                \E k \in DOMAIN new_props :
                    new_props[k] = Loaded(run_dirs[index - 1])
          /\ parser_calls =
                f_entry.counters.parser_calls + (index - 1) * Len(parsers)
    /\ (EndedAfterPolicy /\ RawEntry) =>
          /\ Len(run_dirs) = Cardinality(D)
          /\ \A d \in D : src.runs[d] = run_parsers(parsers, f_entry.src.runs[d])
          /\ parser_calls =
                f_entry.counters.parser_calls + Cardinality(D) * Len(parsers)

\* C17: the cache directory name is the '-'-join of the global revision and
\* the build options in the caller's order (the summary takes no part), and
\* two revisions get the same directory under the cache root exactly when
\* their global revisions are equal and their option sequences are equal.
C17_CacheDirIdentifiesKey ==
    /\ \A i \in DOMAIN revisions :
          revisions[i].cache_dir # None =>
             revisions[i].cache_dir =
                 REVISION_CACHE \o "/" \o
                 join("-", <<revisions[i].rev.global_rev>>
                               \o revisions[i].rev.build_options)
    /\ \A i, j \in DOMAIN revisions :
          (revisions[i].cache_dir # None /\ revisions[j].cache_dir # None) =>
             ( revisions[i].cache_dir = revisions[j].cache_dir
               <=> /\ revisions[i].rev.global_rev = revisions[j].rev.global_rev
                   /\ revisions[i].rev.build_options =
                         revisions[j].rev.build_options )

\* Process p takes a step of cache().
Steps(p) == pc'[p] # pc[p]

\* C18: the cache has no in-progress state and no lock.  A process that has
\* found the directory and then finds no sentinel (the other process is
\* still between creating the directory and writing the sentinel) ends with
\* the 'corrupted' fatal error: it does not wait, check out or build.  A
\* process that has found no directory goes on to create it, check out and
\* (while the directory is there) build in it, whether or not the other
\* process has created the directory or is building in it meanwhile.
C18_NoLockNoInProgressState ==
    [][ \A p \in Procs :
          /\ (pc[p] = "sentinel" /\ ~HasSentinel(disk) /\ Steps(p)) =>
                /\ pc'[p] = "fatal"
                /\ err'[p] = "corrupted"
                /\ disk' = disk
                /\ checkouts' = checkouts
                /\ builds' = builds
          /\ (pc[p] = "makedirs" /\ Steps(p)) =>
                pc'[p] = "archive" /\ Exists(disk')
          /\ (pc[p] = "archive" /\ Steps(p)) =>
                pc'[p] = "archive_done" /\ checkouts' = checkouts + 1
          /\ (pc[p] = "build" /\ Exists(disk) /\ Steps(p)) =>
                pc'[p] = "build_done" /\ builds' = builds + 1 ]_vars

\* Both processes found no directory and built in the same one; process 1
\* then called again and failed on the directory in which process 2 has not
\* yet written the sentinel.
C18_Witness ==
    /\ path[1] = path[2]
    /\ ~entry[2].disk.exists
    /\ pc[2] = "build_done"
    /\ builds = 2
    /\ checkouts = 2
    /\ pc[1] = "fatal"
    /\ err[1] = "corrupted"
    /\ entry[1].disk.exists

CleanupLabels ==
    {"cleanup_builds", "cleanup_build_py", "cleanup_strip", "cleanup_tar",
     "cleanup_xz"}

\* C19: a failing cleanup step never makes a call with a successful build
\* fail and never removes the sentinel: once the build has exited with 0 the
\* call writes the sentinel, goes through the cleanup steps whatever their
\* outcome and returns normally (unless it is killed) with the sentinel
\* present; a later call for the key is a hit and runs no cleanup.
C19_CleanupFailuresAreHarmless ==
    \A p \in Procs :
        /\ (InCall(p) /\ build_retcode[p] = Ret(0)) =>
              /\ pc[p] \in {"build_done", "returned", "killed"} \cup CleanupLabels
              /\ pc[p] \in {"returned"} \cup CleanupLabels => HasSentinel(disk)
        /\ (InCall(p) /\ HasSentinel(entry[p].disk) /\ pc[p] \in Terminal) =>
              /\ pc[p] \in {"returned", "killed"}
              /\ cleanups = entry[p].counters.cleanups
              /\ disk = entry[p].disk

\* The fetch has written the merged store.
Written ==
    \/ f_pc \in {"written", "done"}
    \/ f_pc = "fatal" /\ f_err = UNEXPLAINED_REPORT

\* C20: the filter is applied to the source properties only, before the
\* merge.  Under merge policy a run of the destination store that the
\* filtered source does not supply stays in the merged and in the written
\* store as it was, even if the filter would reject or rewrite it; so a
\* source run that the filter rejects neither removes nor alters the
\* destination run with its identifier.
C20_FilterAppliesToSourceOnly ==
    LET A == f_entry.dest.props
        B == FilteredSource
    IN (~Overwrite /\ f_entry.dest.exists) =>
          /\ f_pc \in {"scan", "write"} =>
                \A i \in DOMAIN A \ DOMAIN B :
                    i \in DOMAIN combined_props /\ combined_props[i] = A[i]
          /\ Written =>
                \A i \in DOMAIN A \ DOMAIN B :
                    i \in DOMAIN dest.props /\ dest.props[i] = A[i]

\* The destination holds a run with id d-p-c2, the source supplies a run
\* with that id, the filter rejects it, and the fetch has written.
C20_Witness ==
    /\ ~Overwrite
    /\ filter = "drop_c2"
    /\ Written
    /\ "d-p-c2" \in DOMAIN f_entry.dest.props
    /\ "d-p-c2" \notin DOMAIN FilteredSource
    /\ IF RawEntry
         THEN \E d \in DOMAIN f_entry.src.runs :
                 Get(Loaded(d), "id", PyNone) = ID2
         ELSE "d-p-c2" \in DOMAIN f_entry.src.props
    /\ dest.props["d-p-c2"] = RunA2

\* The old destination was removed by the policy step of this fetch.
Removed == Overwrite /\ f_entry.dest.exists /\ f_pc \notin {"idle", "policy"}

\* C21: the destination's properties file is written at most once per fetch,
\* and only when collection, filtering, merging and the error scan are done.
\* Until then, and for good when the fetch aborts earlier, the destination
\* is as the fetch found it under merge policy, and absent under overwrite
\* policy, where the old destination is removed before collection starts.
C21_SingleWriteAtTheEnd ==
    f_pc # "idle" =>
       /\ writes \in {f_entry.counters.writes, f_entry.counters.writes + 1}
       /\ writes = f_entry.counters.writes + 1 <=> Written
       /\ Written => dest = EvalDir(combined_props)
       /\ ~Written => dest = IF Removed THEN NoDest ELSE f_entry.dest
       /\ f_pc = "exception" => ~Written

\* A fetch under overwrite policy into an existing destination aborted on a
\* run without 'id' after it had collected another run.
C21_Witness ==
    /\ f_pc = "exception"
    /\ f_err = "KeyError: 'id'"
    /\ index = 2
    /\ new_props # EmptyStore
    /\ Overwrite
    /\ f_entry.dest.exists
    /\ dest = NoDest
    /\ writes = f_entry.counters.writes

\* The identifier under which run directory d of the source is collected.
IdOf(d) == join_id(Loaded(d)["id"].v)

\* C22: while an experiment directory is collected, the store holds for
\* every identifier one entry, the properties of the last run directory in
\* path order among those scanned so far that yield the identifier; so it
\* holds no more identifiers than run directories were scanned.
C22_LastRunDirWins ==
    (f_pc = "loop" /\ RawEntry) =>
       LET scanned == { run_dirs[i] : i \in 1..(index - 1) } IN
       /\ DOMAIN new_props = { IdOf(d) : d \in scanned }
       /\ \A k \in DOMAIN new_props :
             \E d \in scanned :
                /\ IdOf(d) = k
                /\ \A e \in scanned : IdOf(e) = k => e <= d
                /\ new_props[k] = Loaded(d)
       /\ Cardinality(DOMAIN new_props) <= index - 1

\* Two run directories with different properties gave the same identifier.
C22_Witness ==
    /\ f_pc = "loop"
    /\ RawEntry
    /\ index = 3
    /\ Cardinality(DOMAIN new_props) = 1
    /\ Loaded(1) # Loaded(2)
    /\ \E k \in DOMAIN new_props : new_props[k] = Loaded(2)

\* A run counts as an unexplained error: it has no 'error', or its 'error'
\* is a string that starts with 'unexplained'.
Counts(props) ==
    \/ "error" \notin DOMAIN props
    \/ /\ props["error"].t = "str"
       /\ Len(props["error"].v) >= 1
       /\ props["error"].v[1] = "unexplained"

\* C23: the scan runs over all runs of the merged store: a fetch that has
\* merged reports as unexplained errors the number of runs of the merged
\* store, those kept from the destination included, that have no 'error' or
\* an 'error' starting with 'unexplained'; a run whose 'error' is None, empty
\* or another string is not counted.
C23_ScanCountsMergedStore ==
    EndedAfterMerge =>
       LET c == Cardinality({ i \in DOMAIN combined_props :
                                Counts(combined_props[i]) })
       IN IF c = 0 THEN f_pc = "done"
          ELSE /\ f_pc = "fatal"
               /\ f_err = UNEXPLAINED_REPORT
               /\ unexplained_errors = c

\* C24: get_exp_path is 'code-' + global_rev followed by rel_path and does
\* not depend on the build options, the cache directory depends on both:
\* two revisions with the same global revision and different build option
\* sequences have different cache directories and, for the same rel_path,
\* the same experiment path.
C24_ExpPathIgnoresBuildOptions ==
    /\ \A i \in DOMAIN revisions :
          revisions[i].exp_path # None =>
             revisions[i].exp_path =
                 join("/", <<"code-" \o revisions[i].rev.global_rev>>
                               \o revisions[i].rel_path)
    /\ \A i, j \in DOMAIN revisions :
          ( /\ revisions[i].rev.global_rev = revisions[j].rev.global_rev
            /\ revisions[i].rev.build_options # revisions[j].rev.build_options )
          => /\ ( /\ revisions[i].cache_dir # None
                  /\ revisions[j].cache_dir # None )
                => revisions[i].cache_dir # revisions[j].cache_dir
             /\ ( /\ revisions[i].exp_path # None
                  /\ revisions[j].exp_path # None
                  /\ revisions[i].rel_path = revisions[j].rel_path )
                => revisions[i].exp_path = revisions[j].exp_path

====
